---- MODULE Spec2Model ----
(***************************************************************************)
(* MembershipRequest of groupy/resources.py: the object that tracks a      *)
(* bulk add-members job.  The model holds one request object, the caller   *)
(* that invokes is_ready(), poll() and get() on it one call at a time, the *)
(* answer of manager.check() to each check the object issues, and the      *)
(* clock that poll() reads.                                                *)
(***************************************************************************)
EXTENDS Integers, Sequences, FiniteSets, TLC

(* ---------------------------------------------------------------- bounds *)
MaxRequests == 2
MaxRecords == 2
MaxTimeout == 2
MaxInterval == 1
MaxChecks == 2
MaxSetBack == 1

MaxElapsed == MaxTimeout + 1

(* ------------------------------------------------------------ python data *)
\* Python's None, for the attribute `results`.
None == [none |-> "None"]
\* Python's None, for the two recorded exception attributes.
NoException == "None"

\* dict.pop(k) on a dict that has the key: the dict without it.
Pop(d, k) == [x \in DOMAIN d \ {k} |-> d[x]]

HasGuid(r) == "guid" \in DOMAIN r

\* The request dicts a batch is drawn from; the last one bears no guid.
RequestRecords ==
    { [guid |-> "g1", nickname |-> "Ann"],
      [guid |-> "g2", nickname |-> "Bob"],
      [nickname |-> "Cy"] }

\* The raw member dicts manager.check() may return, each bearing a guid: two
\* that carry group_id (as the member data of the tests does) and the record
\* of scenario A, {guid: "g1", id: "m1", user_id: "u1"}, which does not.
ServerRecords ==
    { [guid |-> "g1", id |-> "m1", user_id |-> "u1", group_id |-> "grp"],
      [guid |-> "g2", id |-> "m2", user_id |-> "u2", group_id |-> "grp"],
      [guid |-> "g1", id |-> "m1", user_id |-> "u1"] }

SeqsUpTo(S, n) == UNION { [1..k -> S] : k \in 0..n }

\* The batches a request can be constructed with: any sequence of request
\* dicts, two with the same guid included (__init__ checks nothing).
Batches == SeqsUpTo(RequestRecords, MaxRequests)

RecordLists == SeqsUpTo(ServerRecords, MaxRecords)

\* What manager.check(results_id) can do: raise one of three exceptions or
\* return a list of raw member records.
CheckOutcomes ==
    { [kind |-> k, members |-> <<>>] :
        k \in {"ResultsNotReady", "ResultsExpired", "RequestFailure"} }
    \cup { [kind |-> "Success", members |-> S] : S \in RecordLists }

NoResponse == [kind |-> "none", members |-> <<>>]

(* ------------------------------------------------------------------ Member *)
\* Member.__init__(self, manager, group_id, **data): group_id is a required
\* parameter, taken from the keywords when it is passed by name; the body
\* reads self.user_id, which Resource.__getattr__ refuses when the data has
\* no such field.
Member_init(kwargs) ==
    IF "group_id" \notin DOMAIN kwargs
    THEN [exc |-> "TypeError", member |-> None]
    ELSE LET data == Pop(kwargs, "group_id") IN
         IF "user_id" \notin DOMAIN data
         THEN [exc |-> "AttributeError", member |-> None]
         ELSE [exc |-> NoException,
               member |-> [group_id |-> kwargs.group_id, data |-> data]]

(* ------------------------------------------------------- reconciliation *)
Results(members, failures) == [members |-> members, failures |-> failures]

\* {member['guid']: member for member in results}: a later record with the
\* same guid replaces an earlier one.  Defined when every record has a guid.
GuidIndex(S) ==
    LET guids == { S[i].guid : i \in 1..Len(S) }
        last(g) == CHOOSE i \in 1..Len(S) :
                      /\ S[i].guid = g
                      /\ \A j \in 1..Len(S) : S[j].guid = g => j <= i
    IN  [g \in guids |-> S[last(g)]]

\* The for loop of _process_new_members from the i-th request on.  `data`
\* holds the indexed dicts as the loop has mutated them so far (pop('guid')
\* mutates the dict held in the index).
RECURSIVE ProcessLoop(_, _, _, _, _)
ProcessLoop(requests, i, data, members, failures) ==
    IF i > Len(requests)
    THEN [exc |-> NoException, results |-> Results(members, failures)]
    ELSE LET request == requests[i] IN
         IF ~HasGuid(request) \/ request.guid \notin DOMAIN data
         THEN ProcessLoop(requests, i + 1, data, members,
                          Append(failures, request))
         ELSE LET member_data == data[request.guid] IN
              IF ~HasGuid(member_data)
              THEN [exc |-> "KeyError", results |-> None]
              ELSE LET popped == Pop(member_data, "guid")
                       made == Member_init(popped)
                   IN  IF made.exc # NoException
                       THEN [exc |-> made.exc, results |-> None]
                       ELSE ProcessLoop(requests, i + 1,
                                        [data EXCEPT ![request.guid] = popped],
                                        Append(members, made.member),
                                        failures)

\* _process_new_members(results): the exception it raises, if any, and the
\* value it assigns to self.results when it completes.
_process_new_members(requests, S) ==
    IF \E i \in 1..Len(S) : ~HasGuid(S[i])
    THEN [exc |-> "KeyError", results |-> None]
    ELSE ProcessLoop(requests, 1, GuidIndex(S), <<>>, <<>>)

(* ------------------------------------------------------------------ state *)
VARIABLES
    _requests,            \* self._requests, fixed at construction
    _is_ready,            \* self._is_ready
    _not_ready_exception, \* self._not_ready_exception
    _expired_exception,   \* self._expired_exception
    results,              \* self.results
    pc,                   \* where the caller's current call stands
    op,                   \* the call in progress, or the last one made
    timeout,              \* poll's argument
    interval,             \* poll's argument
    elapsed,              \* time.time() - start, as the clock now stands;
                          \* negative once the system clock has been set
                          \* back past start
    set_back,             \* by how much the system clock has been set
                          \* back since start: the time that has really
                          \* passed is elapsed + set_back
    had_time,             \* whether poll's loop condition last found
                          \* time.time() - start < timeout
    real_time_left,       \* whether, at that reading, less than timeout
                          \* had really passed since start
    outstanding,          \* checks sent to manager.check() and not answered
    response,             \* the answer to the last check
    outcome,              \* how the last call ended
    n_checks,             \* checks issued by the current (or last) call
    n_sleeps              \* time.sleep() calls of the current (or last) call

obj == <<_is_ready, _not_ready_exception, _expired_exception, results>>
locals == <<timeout, interval, elapsed, set_back, had_time, real_time_left>>
vars == <<_requests, _is_ready, _not_ready_exception, _expired_exception,
          results, pc, op, timeout, interval, elapsed, set_back, had_time,
          real_time_left, outstanding,
          response, outcome, n_checks, n_sleeps>>

Timeouts == 0..MaxTimeout
Intervals == -1..MaxInterval

InProgress == [kind |-> "pending", exc |-> NoException, ready |-> FALSE,
            value |-> None, exit |-> "none"]
Return(v, how) == [kind |-> "return", exc |-> NoException, ready |-> FALSE,
                   value |-> v, exit |-> how]
ReturnBool(b) == [kind |-> "return", exc |-> NoException, ready |-> b,
                  value |-> None, exit |-> "none"]
Raise(e, how) == [kind |-> "raise", exc |-> e, ready |-> FALSE,
                  value |-> None, exit |-> how]

(* ------------------------------------------------------ MembershipRequest *)
\* __init__: no exception recorded, not ready, no results.
Init ==
    /\ _requests \in Batches
    /\ _is_ready = FALSE
    /\ _not_ready_exception = NoException
    /\ _expired_exception = NoException
    /\ results = None
    /\ pc = "idle"
    /\ op = "none"
    /\ timeout = 0
    /\ interval = 0
    /\ elapsed = 0
    /\ set_back = 0
    /\ had_time = FALSE
    /\ real_time_left = FALSE
    /\ outstanding = 0
    /\ response = NoResponse
    /\ outcome = InProgress
    /\ n_checks = 0
    /\ n_sleeps = 0

\* _check_if_ready's try body once manager.check() has returned `members`:
\* _is_ready and _not_ready_exception are assigned before
\* _process_new_members runs, results only when it completes; what it
\* raises is caught by neither except clause.
OnSuccess(members) ==
    LET done == _process_new_members(_requests, members) IN
    [is_ready |-> TRUE,
     not_ready_exception |-> NoException,
     expired_exception |-> _expired_exception,
     results |-> IF done.exc = NoException THEN done.results ELSE results,
     exc |-> done.exc]

\* Faulty variant of OnNotReady: the handler forgets to record the exception.
OnNotReady_Unrecorded(e) ==
    [is_ready |-> FALSE,
     not_ready_exception |-> _not_ready_exception,
     expired_exception |-> _expired_exception,
     results |-> results,
     exc |-> NoException]

\* except exceptions.ResultsNotReady as e
OnNotReady(e) ==
    [is_ready |-> FALSE,
     not_ready_exception |-> e,
     expired_exception |-> _expired_exception,
     results |-> results,
     exc |-> NoException]

\* except exceptions.ResultsExpired as e
OnExpired(e) ==
    [is_ready |-> TRUE,
     not_ready_exception |-> _not_ready_exception,
     expired_exception |-> e,
     results |-> results,
     exc |-> NoException]

\* Faulty variant of OnOtherFailure: a catch-all clause absorbs the failure as
\* if the results were not ready.
OnOtherFailure_Absorbed(e) ==
    [is_ready |-> FALSE,
     not_ready_exception |-> e,
     expired_exception |-> _expired_exception,
     results |-> results,
     exc |-> NoException]

\* Any other exception of manager.check(): no except clause matches, nothing
\* is assigned, and e leaves _check_if_ready.
OnOtherFailure(e) ==
    [is_ready |-> _is_ready,
     not_ready_exception |-> _not_ready_exception,
     expired_exception |-> _expired_exception,
     results |-> results,
     exc |-> e]

\* _check_if_ready, given what manager.check() did: the attributes after it
\* and the exception that leaves it, if any.
_check_if_ready(resp) ==
    CASE resp.kind = "Success" -> OnSuccess(resp.members)
      [] resp.kind = "ResultsNotReady" -> OnNotReady(resp.kind)
      [] resp.kind = "ResultsExpired" -> OnExpired(resp.kind)
      [] OTHER -> OnOtherFailure(resp.kind)

\* Faulty variant of get: the two tests in the other order.
get_NotReadyFirst ==
    IF _not_ready_exception # NoException
    THEN [kind |-> "raise", exc |-> _not_ready_exception, value |-> None]
    ELSE IF _expired_exception # NoException
         THEN [kind |-> "raise", exc |-> _expired_exception, value |-> None]
         ELSE [kind |-> "return", exc |-> NoException, value |-> results]

\* get(): the expired exception first, then the not-ready one, else results.
get ==
    IF _expired_exception # NoException
    THEN [kind |-> "raise", exc |-> _expired_exception, value |-> None]
    ELSE IF _not_ready_exception # NoException
         THEN [kind |-> "raise", exc |-> _not_ready_exception, value |-> None]
         ELSE [kind |-> "return", exc |-> NoException, value |-> results]

\* is_ready() consults the server only while not self._is_ready.
NeedsCheck == ~_is_ready

\* poll's loop condition, first conjunct: time.time() - start < timeout.
TimeLeft == elapsed < timeout

\* poll's loop condition, second conjunct: where the loop goes once
\* is_ready() has returned.
AfterIsReady(ready) == IF ready THEN "poll_get" ELSE "poll_sleep"

EndCall ==
    /\ pc' = "idle"
    /\ timeout' = 0
    /\ interval' = 0
    /\ elapsed' = 0
    /\ set_back' = 0
    /\ had_time' = FALSE
    /\ real_time_left' = FALSE

\* The caller calls is_ready().
IsReadyCall ==
    /\ pc = "idle"
    /\ op' = "is_ready"
    /\ n_sleeps' = 0
    /\ IF NeedsCheck
       THEN /\ pc' = "check"
            /\ outstanding' = outstanding + 1
            /\ n_checks' = 1
            /\ outcome' = InProgress
       ELSE /\ pc' = "idle"
            /\ outstanding' = outstanding
            /\ n_checks' = 0
            /\ outcome' = ReturnBool(_is_ready)
    /\ UNCHANGED <<_requests, obj, locals, response>>

\* manager.check() answers; _check_if_ready finishes and is_ready() returns
\* self._is_ready to its caller, or the exception passes through both.
CheckReturn(resp) ==
    /\ pc = "check"
    /\ LET after == _check_if_ready(resp) IN
       /\ _is_ready' = after.is_ready
       /\ _not_ready_exception' = after.not_ready_exception
       /\ _expired_exception' = after.expired_exception
       /\ results' = after.results
       /\ IF op = "is_ready"
          THEN /\ outcome' = IF after.exc # NoException
                             THEN Raise(after.exc, "none")
                             ELSE ReturnBool(after.is_ready)
               /\ EndCall
          ELSE IF after.exc # NoException
               THEN /\ outcome' = Raise(after.exc, "raise")
                    /\ EndCall
               ELSE /\ outcome' = InProgress
                    /\ pc' = AfterIsReady(after.is_ready)
                    /\ UNCHANGED locals
    /\ outstanding' = outstanding - 1
    /\ response' = resp
    /\ UNCHANGED <<_requests, op, n_checks, n_sleeps>>

\* The caller calls get().
GetCall ==
    /\ pc = "idle"
    /\ op' = "get"
    /\ n_checks' = 0
    /\ n_sleeps' = 0
    /\ outcome' = IF get.kind = "raise" THEN Raise(get.exc, "none")
                                        ELSE Return(get.value, "none")
    /\ UNCHANGED <<_requests, obj, pc, locals, outstanding, response>>

\* The caller calls poll(t, i): start = time.time().
PollCall(t, i) ==
    /\ pc = "idle"
    /\ op' = "poll"
    /\ pc' = "poll_test"
    /\ timeout' = t
    /\ interval' = i
    /\ elapsed' = 0
    /\ set_back' = 0
    /\ had_time' = FALSE
    /\ real_time_left' = FALSE
    /\ n_checks' = 0
    /\ n_sleeps' = 0
    /\ outcome' = InProgress
    /\ UNCHANGED <<_requests, obj, outstanding, response>>

\* poll() is running: it has read start and has not returned.
InPoll ==
    /\ op = "poll"
    /\ pc \in {"poll_test", "check", "poll_sleep", "poll_get"}

\* The clock moves on while poll() runs.
Tick ==
    /\ InPoll
    /\ elapsed < MaxElapsed
    /\ elapsed' = elapsed + 1
    /\ UNCHANGED <<_requests, obj, pc, op, timeout, interval, set_back,
                   had_time, real_time_left, outstanding, response, outcome,
                   n_checks, n_sleeps>>

\* time.time() is the wall clock: while poll() runs the system clock may be
\* set back, so that a later reading is below an earlier one.
ClockSetBack ==
    /\ InPoll
    /\ set_back < MaxSetBack
    /\ elapsed' = elapsed - 1
    /\ set_back' = set_back + 1
    /\ UNCHANGED <<_requests, obj, pc, op, timeout, interval, had_time,
                   real_time_left, outstanding, response, outcome, n_checks,
                   n_sleeps>>

\* poll evaluates `time.time() - start < timeout and not self.is_ready()`
\* up to the point where is_ready() either returns without a check or has
\* sent one.
PollTest ==
    /\ pc = "poll_test"
    /\ had_time' = TimeLeft
    /\ real_time_left' = (elapsed + set_back < timeout)
    /\ IF ~TimeLeft
       THEN /\ pc' = "poll_get"
            /\ UNCHANGED <<outstanding, n_checks>>
       ELSE IF NeedsCheck
            THEN /\ n_checks < MaxChecks
                 /\ pc' = "check"
                 /\ outstanding' = outstanding + 1
                 /\ n_checks' = n_checks + 1
            ELSE /\ pc' = AfterIsReady(_is_ready)
                 /\ UNCHANGED <<outstanding, n_checks>>
    /\ UNCHANGED <<_requests, obj, op, timeout, interval, elapsed, set_back,
                   response, outcome, n_sleeps>>

\* time.sleep(interval), which refuses a negative length.
PollSleep ==
    /\ pc = "poll_sleep"
    /\ IF interval < 0
       THEN /\ outcome' = Raise("ValueError", "raise")
            /\ EndCall
            /\ UNCHANGED n_sleeps
       ELSE /\ elapsed' = elapsed + interval
            /\ n_sleeps' = n_sleeps + 1
            /\ pc' = "poll_test"
            /\ UNCHANGED <<outcome, timeout, interval, set_back, had_time,
                           real_time_left>>
    /\ UNCHANGED <<_requests, obj, op, outstanding, response, n_checks>>

\* return self.get()
PollGet ==
    /\ pc = "poll_get"
    /\ outcome' = LET how == IF had_time
                             THEN "ready" ELSE "timeout"
                  IN  IF get.kind = "raise" THEN Raise(get.exc, how)
                                            ELSE Return(get.value, how)
    /\ EndCall
    /\ UNCHANGED <<_requests, obj, op, outstanding, response, n_checks,
                   n_sleeps>>

Next ==
    \/ IsReadyCall
    \/ \E resp \in CheckOutcomes : CheckReturn(resp)
    \/ GetCall
    \/ \E t \in Timeouts, i \in Intervals : PollCall(t, i)
    \/ Tick
    \/ ClockSetBack
    \/ PollTest
    \/ PollSleep
    \/ PollGet

Spec == Init /\ [][Next]_vars

(* ----------------------------------------------------------------- claims *)

\* A check has succeeded (manager.check() returned records) or has failed
\* with ResultsExpired.
Terminal == response.kind \in {"Success", "ResultsExpired"}

\* The request's guid occurs among the returned records.
Matched(r, S) ==
    HasGuid(r) /\ \E i \in 1..Len(S) : HasGuid(S[i]) /\ S[i].guid = r.guid

MatchedRequests(R, S) == SelectSeq(R, LAMBDA r : Matched(r, S))
UnmatchedRequests(R, S) == SelectSeq(R, LAMBDA r : ~Matched(r, S))

\* C1: once manager.check() has returned the records S, results is the stable
\* partition of the batch by guid: failures is the requests whose guid does
\* not occur in S, in request order; members holds one Member per request
\* whose guid occurs in S; the two lengths add up to the batch's.
C1_StablePartition ==
    response.kind = "Success" =>
        /\ results # None
        /\ results.failures = UnmatchedRequests(_requests, response.members)
        /\ Len(results.members)
             = Len(MatchedRequests(_requests, response.members))
        /\ Len(results.members) + Len(results.failures) = Len(_requests)

\* C2: once a check has failed with ResultsExpired, get() fails with
\* ResultsExpired in every later state, and so does every get() made since,
\* directly or at the end of poll(), whatever had been recorded before.
C2_ExpiredSticky ==
    response.kind = "ResultsExpired" =>
        /\ get.kind = "raise"
        /\ get.exc = "ResultsExpired"
        /\ (op \in {"get", "poll"} /\ outcome.kind # "pending") =>
               (outcome.kind = "raise" /\ outcome.exc = "ResultsExpired")

\* A get() made after expiry, with a not-ready condition recorded earlier.
C2_Witness ==
    /\ response.kind = "ResultsExpired"
    /\ _not_ready_exception = "ResultsNotReady"
    /\ op = "get"
    /\ outcome.kind = "raise"

\* C3: an is_ready() whose check is answered ResultsNotReady has made exactly
\* one check, returns false and leaves the request pending (not ready, no
\* results, no expired condition), and get() then fails with ResultsNotReady.
C3_NotReadyStaysPending ==
    [][(pc = "check" /\ pc' # "check" /\ response'.kind = "ResultsNotReady") =>
          /\ ~_is_ready'
          /\ results' = None
          /\ _expired_exception' = NoException
          /\ outstanding' = 0
          /\ n_checks' = n_checks
          /\ op = "is_ready" =>
                 (n_checks' = 1 /\ pc' = "idle" /\ outcome' = ReturnBool(FALSE))
          /\ op = "poll" => pc' = "poll_sleep"
          /\ get'.kind = "raise"
          /\ get'.exc = "ResultsNotReady"]_vars

\* Inside a poll(), a second is_ready() in a row has been answered
\* ResultsNotReady and has returned false.
C3_Witness ==
    /\ InPoll
    /\ pc = "poll_sleep"
    /\ n_checks = 2
    /\ response.kind = "ResultsNotReady"
    /\ _not_ready_exception = "ResultsNotReady"
    /\ ~_is_ready

\* C4: a poll() whose loop ended because the timeout elapsed, on a request
\* that is still not ready, fails with ResultsNotReady.
C4_TimeoutRaisesNotReady ==
    (op = "poll" /\ outcome.exit = "timeout" /\ ~_is_ready) =>
        (outcome.kind = "raise" /\ outcome.exc = "ResultsNotReady")

\* C5: up to the point where it calls get(), poll(timeout=0) has made at most
\* one check and has not slept.
C5_ZeroTimeout ==
    (InPoll /\ timeout = 0) => (n_checks <= 1 /\ n_sleeps = 0)

\* C6: once a check has succeeded, the not-ready condition is cleared, the
\* batch is reconciled, get() returns the reconciled pair, and the is_ready()
\* that made the check (like every later one) has returned true.
C6_SuccessDeliversResults ==
    response.kind = "Success" =>
        /\ _not_ready_exception = NoException
        /\ results # None
        /\ get.kind = "return"
        /\ get.value = results
        /\ (op = "is_ready" /\ pc = "idle") => outcome = ReturnBool(TRUE)

\* C7: once a check has succeeded or expired, the is_ready() call that made
\* it and every later one return true, no further check is issued, and the
\* request stays ready with its results and recorded conditions unchanged.
C7_TerminalStates ==
    [][/\ (Terminal' /\ op' = "is_ready" /\ pc' = "idle") =>
              outcome' = ReturnBool(TRUE)
       /\ Terminal =>
              /\ _is_ready /\ _is_ready'
              /\ pc' # "check"
              /\ outstanding' = 0
              /\ UNCHANGED <<results, _not_ready_exception,
                             _expired_exception>>]_vars

\* C8: a get(), made directly or at the end of poll(), that returns normally
\* returns a reconciled pair, never an absent result.
C8_GetNeverAbsent ==
    (op \in {"get", "poll"} /\ outcome.kind = "return") =>
        outcome.value # None

\* C9: a check that fails with a generic request failure ends the is_ready()
\* or poll() in progress with that failure and changes nothing of the
\* request, which stays pending; an is_ready() on a pending request issues
\* a check.
C9_GenericFailurePropagates ==
    /\ [][(pc = "check" /\ pc' # "check" /\ response'.kind = "RequestFailure") =>
             /\ UNCHANGED <<_is_ready, _not_ready_exception,
                            _expired_exception, results>>
             /\ ~_is_ready'
             /\ pc' = "idle"
             /\ outcome'.kind = "raise"
             /\ outcome'.exc = "RequestFailure"]_vars
    /\ [][(pc = "idle" /\ op' = "is_ready" /\ ~_is_ready) =>
             (pc' = "check" /\ n_checks' = 1)]_vars

\* A poll() ended by a generic failure, the not-ready condition of an earlier
\* check still recorded.
C9_Witness ==
    /\ op = "poll"
    /\ pc = "idle"
    /\ response.kind = "RequestFailure"
    /\ outcome.exc = "RequestFailure"
    /\ _not_ready_exception = "ResultsNotReady"
    /\ ~_is_ready

\* C10: within poll() a sleep starts only right after an is_ready() that
\* returned false in an iteration at whose time test the timeout had not yet
\* elapsed; once is_ready() has returned true there is no sleep and no
\* check; at most one check is outstanding; every poll() comes to call
\* get(), once, after its loop has exited (the time test failed or
\* is_ready() returned true), and ends with get()'s outcome.
C10_PollSequential ==
    [][InPoll =>
         /\ (pc' = "poll_sleep" /\ pc # "poll_sleep") =>
                (pc = "check" /\ ~_is_ready' /\ real_time_left)
         /\ n_sleeps' # n_sleeps =>
                (pc = "poll_sleep" /\ n_sleeps' = n_sleeps + 1)
         /\ n_checks' # n_checks =>
                (pc = "poll_test" /\ outstanding = 0 /\ ~_is_ready)
         /\ outstanding' <= 1
         /\ _is_ready =>
                (pc' \notin {"check", "poll_sleep"}
                   /\ n_sleeps' = n_sleeps /\ n_checks' = n_checks)
         /\ (pc' = "poll_get" /\ pc # "poll_get") =>
                (~had_time' \/ _is_ready')
         /\ (pc = "poll_get" /\ pc' # "poll_get") =>
                /\ pc' = "idle"
                /\ outcome'.kind = get.kind
                /\ outcome'.exc = get.exc
                /\ outcome'.value = get.value
         /\ pc' = "idle" => pc = "poll_get"]_vars

====
